---- MODULE Spec2Model ----
(***************************************************************************)
(* Model of the UsfNode client (src/src/index.ts, class UsfNode, lines     *)
(* 316-618): construction, the twelve-operation wrapper surface, the       *)
(* canonical request array, the signature token, the fetch round trip and  *)
(* the silent / throwing reconciliation of its outcome.                    *)
(***************************************************************************)
EXTENDS Naturals, Integers, Sequences, FiniteSets, TLC

VARIABLES clients, calls

vars == <<clients, calls>>

(***************************************************************************)
(* Bounds of the input space.                                              *)
(***************************************************************************)
\* longest aggregate pipeline a caller passes
MaxStages == 2
\* longest operation array a caller passes to bulkWrite / updateBatch
MaxOps == 2

(***************************************************************************)
(* JavaScript values.  Every value is a record of the same three fields so *)
(* that any two values can be compared: t is the type tag, s the text of a *)
(* primitive, items the elements of an array or the properties of an       *)
(* object (each property is itself a "prop" node: s the key, items the     *)
(* one-element sequence holding the value).                                *)
(***************************************************************************)
JS(t, s, items) == [t |-> t, s |-> s, items |-> items]

Undef == JS("undefined", "", <<>>)
Null == JS("null", "", <<>>)
Str(s) == JS("string", s, <<>>)
Num(s) == JS("number", s, <<>>)

\* a BigInt, which JSON.stringify refuses
BigInt(s) == JS("bigint", s, <<>>)
Bool(b) == JS("boolean", IF b THEN "true" ELSE "false", <<>>)
Arr(items) == JS("array", "", items)
Prop(k, v) == JS("prop", k, <<v>>)
Obj(props) == JS("object", "", props)

\* ToBoolean: what `x && ...` and `x || ...` test
Truthy(v) ==
    CASE v.t \in {"undefined", "null"} -> FALSE
      [] v.t = "string" -> v.s # ""
      [] v.t = "number" -> v.s \notin {"0", "NaN"}
      [] v.t = "boolean" -> v.s = "true"
      [] OTHER -> TRUE

\* `k in v` for an object or an array v (an array has index keys only)
HasKey(v, k) ==
    /\ v.t = "object"
    /\ \E i \in 1..Len(v.items) : v.items[i].s = k

\* v.k : the property's value, undefined when v has no such property
Get(v, k) ==
    IF HasKey(v, k)
    THEN LET i == CHOOSE j \in 1..Len(v.items) : v.items[j].s = k
         IN v.items[i].items[1]
    ELSE Undef

\* Array.isArray
IsArray(v) == v.t = "array"

\* { ...o, k: v } : the properties of o in order, k overwritten in place
\* when o has it and appended otherwise
SpreadSet(o, k, v) ==
    LET props == IF o.t = "object" THEN o.items ELSE <<>>
    IN IF \E i \in 1..Len(props) : props[i].s = k
       THEN Obj([i \in 1..Len(props) |->
                    IF props[i].s = k THEN Prop(k, v) ELSE props[i]])
       ELSE Obj(Append(props, Prop(k, v)))

\* a default parameter value: `p: T = d` takes d when the argument is
\* undefined
DefaultTo(arg, d) == IF arg.t = "undefined" THEN d ELSE arg

(***************************************************************************)
(* JSON.stringify, on the values above: array holes and undefined elements *)
(* print as null, undefined-valued properties are left out, properties     *)
(* keep their insertion order.                                             *)
(***************************************************************************)
RECURSIVE JSONstringify(_), StringifyElems(_), StringifyProps(_)

JSONstringify(v) ==
    CASE v.t = "string" -> "\"" \o v.s \o "\""
      [] v.t \in {"number", "boolean"} -> v.s
      [] v.t = "array" -> "[" \o StringifyElems(v.items) \o "]"
      [] v.t = "object" ->
            "{" \o StringifyProps(SelectSeq(v.items,
                      LAMBDA p : p.items[1].t # "undefined")) \o "}"
      [] OTHER -> "null"

StringifyElems(items) ==
    IF items = <<>> THEN ""
    ELSE JSONstringify(Head(items))
         \o (IF Len(items) > 1 THEN "," ELSE "")
         \o StringifyElems(Tail(items))

StringifyProps(props) ==
    IF props = <<>> THEN ""
    ELSE "\"" \o Head(props).s \o "\":" \o JSONstringify(Head(props).items[1])
         \o (IF Len(props) > 1 THEN "," ELSE "")
         \o StringifyProps(Tail(props))

(***************************************************************************)
(* Values a caller passes, by the declared parameter types.                *)
(***************************************************************************)
SeqsUpTo(S, n) == UNION {[1..m -> S] : m \in 0..n}

\* FindQuery
Queries ==
    { Obj(<<Prop("x", Num("1"))>>),
      Obj(<<Prop("sku", Str("A"))>>) }

\* FindOptions, or undefined when the caller leaves the argument out
OptionArgs ==
    { Undef,
      Obj(<<>>),
      Obj(<<Prop("limit", Num("5")), Prop("skip", Num("2"))>>) }

\* CreateUSFItem
Items ==
    { Obj(<<Prop("sku", Str("A")), Prop("packageQuantity", Num("100"))>>) }

\* UpdateQuery (every operator is optional, so {} is one)
Updates ==
    { Obj(<<Prop("$set", Obj(<<Prop("qty", Num("5"))>>))>>),
      Obj(<<>>) }

\* BatchCreateQuery: {items, options?}
BatchCreateArgs ==
    { Obj(<<Prop("items", Arr(is))>>) : is \in SeqsUpTo(Items, MaxOps) }
    \cup
    { Obj(<<Prop("items", Arr(is)),
            Prop("options", Obj(<<Prop("ordered", Bool(TRUE))>>))>>) :
        is \in SeqsUpTo(Items, MaxOps) }

\* BatchUpdateQuery and BulkWriteUpdateOneOperation: {filter, update}
FilterUpdates ==
    { Obj(<<Prop("filter", Obj(<<Prop("sku", Str("A"))>>)),
            Prop("update", Obj(<<Prop("$set", Obj(<<Prop("qty", Num("5"))>>))>>))>>),
      Obj(<<Prop("filter", Obj(<<Prop("x", Num("1"))>>)),
            Prop("update", Obj(<<Prop("$inc",
                     Obj(<<Prop("packageQuantity", Num("5"))>>))>>))>>) }

\* BatchUpdateQuery[]
BatchUpdateArgs == { Arr(qs) : qs \in SeqsUpTo(FilterUpdates, MaxOps) }

\* { updateOne: BulkWriteUpdateOneOperation }
BulkOps == { Obj(<<Prop("updateOne", fu)>>) : fu \in FilterUpdates }

\* BulkWriteOperation: one operation or an array of them
BulkWriteArgs == BulkOps \cup { Arr(ops) : ops \in SeqsUpTo(BulkOps, MaxOps) }

\* the options argument of bulkWrite
BulkOptionArgs == { Undef, Obj(<<Prop("ordered", Bool(TRUE))>>) }

\* AggregateStages: a bare stage operator object
Stages ==
    { Obj(<<Prop("$match", Obj(<<Prop("sku", Str("A"))>>))>>),
      Obj(<<Prop("$limit", Num("5"))>>) }

\* AggregateStage: {stage: AggregateStages}
WrapStage(s) == Obj(<<Prop("stage", s)>>)

WrappedStages == { WrapStage(s) : s \in Stages }

\* AggregatePipeline: {pipeline: AggregateStage[]}
WrapPipeline(ws) == Obj(<<Prop("pipeline", Arr(ws))>>)

\* a stage whose $addFields ({[key: string]: any}) holds a BigInt
BigIntStage ==
    Obj(<<Prop("$addFields", Obj(<<Prop("total", BigInt("10"))>>))>>)

\* what aggregate is called with: an array whose elements are bare or
\* enveloped stages, or a pipeline envelope
PipelineArgs ==
    { Arr(p) : p \in SeqsUpTo(Stages \cup WrappedStages, MaxStages) }
    \cup
    { WrapPipeline(ws) : ws \in SeqsUpTo(WrappedStages, MaxStages) }
    \cup
    { Arr(<<BigIntStage>>) }

\* readings of Date.now()
Times == {999, 1700}

(***************************************************************************)
(* Date.now().toString() and Buffer.from(time).toString("base64").         *)
(***************************************************************************)
DigitChars == <<"0", "1", "2", "3", "4", "5", "6", "7", "8", "9">>

RECURSIVE DecimalDigits(_)
DecimalDigits(n) ==
    IF n < 10 THEN <<n>> ELSE Append(DecimalDigits(n \div 10), n % 10)

RECURSIVE ConcatDigits(_)
ConcatDigits(ds) ==
    IF ds = <<>> THEN "" ELSE DigitChars[Head(ds) + 1] \o ConcatDigits(Tail(ds))

\* Number.prototype.toString of a non-negative integer
NumberToString(n) == ConcatDigits(DecimalDigits(n))

Base64Alphabet ==
    << "A","B","C","D","E","F","G","H","I","J","K","L","M","N","O","P",
       "Q","R","S","T","U","V","W","X","Y","Z","a","b","c","d","e","f",
       "g","h","i","j","k","l","m","n","o","p","q","r","s","t","u","v",
       "w","x","y","z","0","1","2","3","4","5","6","7","8","9","+","/" >>

B64Char(sextet) == Base64Alphabet[sextet + 1]

\* base64 of a byte sequence, three bytes to four characters, "=" padded
RECURSIVE Base64Bytes(_)
Base64Bytes(bs) ==
    IF bs = <<>> THEN ""
    ELSE IF Len(bs) = 1
    THEN B64Char(bs[1] \div 4) \o B64Char((bs[1] % 4) * 16) \o "=="
    ELSE IF Len(bs) = 2
    THEN B64Char(bs[1] \div 4)
         \o B64Char((bs[1] % 4) * 16 + bs[2] \div 16)
         \o B64Char((bs[2] % 16) * 4) \o "="
    ELSE B64Char(bs[1] \div 4)
         \o B64Char((bs[1] % 4) * 16 + bs[2] \div 16)
         \o B64Char((bs[2] % 16) * 4 + bs[3] \div 64)
         \o B64Char(bs[3] % 64)
         \o Base64Bytes(SubSeq(bs, 4, Len(bs)))

\* the bytes of the decimal string of n (the digits' character codes)
TimeBytes(n) == [i \in 1..Len(DecimalDigits(n)) |-> 48 + DecimalDigits(n)[i]]

\* JSON.stringify(v) returns: v holds no BigInt (it throws a TypeError on
\* one)
RECURSIVE Serializable(_)
Serializable(v) ==
    /\ v.t # "bigint"
    /\ \A i \in 1..Len(v.items) : Serializable(v.items[i])

BigIntMessage == "Do not know how to serialize a BigInt"

\* crypto.createHmac("sha256", key) throws on a key that is neither a
\* string nor a buffer
createHmacThrows(key) == key.t # "string"

SignatureErrorMessage == "Failed to generate signature"

\* HMAC-SHA256 hex digest, kept symbolic: a term in its key and message
HmacSha256Hex(key, data) == "hmac-sha256(" \o key \o ";" \o data \o ")"

\* generateSignature run on the array as it stands before the options
\* element is pushed
generateSignatureBeforeOptions(client, body, now) ==
    LET time == NumberToString(now)
        data == JSONstringify(Arr(SubSeq(body.items, 1, 2))) \o time
        hmac == HmacSha256Hex(client.privateKey.s, data)
        b64Time == Base64Bytes(TimeBytes(now))
    IN client.authorizerId \o "." \o client.secret \o "." \o hmac
       \o "." \o b64Time

\* generateSignature(body) at clock reading now
\* generateSignature reading the clock a second time for the b64Time
\* segment, one millisecond after the reading it hashed
generateSignatureTwoReadings(client, body, now) ==
    LET time == NumberToString(now)
        data == JSONstringify(body) \o time
        hmac == HmacSha256Hex(client.privateKey.s, data)
        b64Time == Base64Bytes(TimeBytes(now + 1))
    IN client.authorizerId \o "." \o client.secret \o "." \o hmac
       \o "." \o b64Time

\* generateSignature hashing the payload alone, without the time
generateSignatureUntimed(client, body, now) ==
    LET time == NumberToString(now)
        data == JSONstringify(body)
        hmac == HmacSha256Hex(client.privateKey.s, data)
        b64Time == Base64Bytes(TimeBytes(now))
    IN client.authorizerId \o "." \o client.secret \o "." \o hmac
       \o "." \o b64Time

generateSignature(client, body, now) ==
    LET time == NumberToString(now)
        data == JSONstringify(body) \o time
        hmac == HmacSha256Hex(client.privateKey.s, data)
        b64Time == Base64Bytes(TimeBytes(now))
    IN client.authorizerId \o "." \o client.secret \o "." \o hmac
       \o "." \o b64Time

(***************************************************************************)
(* The client object and its constructor.                                  *)
(***************************************************************************)
DefaultUrl == "https://api.usf.prism-solutions.io/v1"

Urls == {DefaultUrl, "http://localhost:3000"}

\* credential strings a caller passes; "" is the falsy one
AuthorizerIds == {"", "auth1"}
Secrets == {"", "sec1"}
\* the private key as passed: a string, or the number an untyped caller
\* passes (the constructor tests truthiness only)
PrivateKeys == {Str(""), Str("pk1"), Num("12345")}

\* a client slot before `new UsfNode(...)` ran on it
NoClient ==
    [live |-> FALSE, error |-> "", authorizerId |-> "", secret |-> "",
     privateKey |-> Undef, baseUrl |-> "", silentReturn |-> FALSE]

\* the constructor without its test of the secret
constructorUncheckedSecret(authorizerId, secret, privateKey, silentReturn, url) ==
    IF ~Truthy(privateKey)
    THEN [NoClient EXCEPT !.error = "privateKey is required"]
    ELSE IF authorizerId = ""
    THEN [NoClient EXCEPT !.error = "authorizerId is required"]
    ELSE [live |-> TRUE, error |-> "", authorizerId |-> authorizerId,
          secret |-> secret, privateKey |-> privateKey, baseUrl |-> url,
          silentReturn |-> silentReturn]

\* new UsfNode({authorizerId, secret, privateKey}, silentReturn, url):
\* the object built, or the slot left without an object and the message
\* of the error thrown
constructor(authorizerId, secret, privateKey, silentReturn, url) ==
    IF ~Truthy(privateKey)
    THEN [NoClient EXCEPT !.error = "privateKey is required"]
    ELSE IF secret = "" THEN [NoClient EXCEPT !.error = "secret is required"]
    ELSE IF authorizerId = ""
    THEN [NoClient EXCEPT !.error = "authorizerId is required"]
    ELSE [live |-> TRUE, error |-> "", authorizerId |-> authorizerId,
          secret |-> secret, privateKey |-> privateKey, baseUrl |-> url,
          silentReturn |-> silentReturn]

(***************************************************************************)
(* The operation descriptor each wrapper hands to request().               *)
(***************************************************************************)
RequestBody(operation, query, document, selectOptions) ==
    [operation |-> operation, query |-> query, document |-> document,
     selectOptions |-> selectOptions]

NoBody == RequestBody("", Undef, Undef, Undef)

EmptyObject == Obj(<<>>)

find(query, options) ==
    RequestBody("find", query, Undef, DefaultTo(options, EmptyObject))

\* findOne spreading the options after the limit ({limit: 1, ...options}),
\* so that a limit of the caller wins
findOneCallerLimitWins(query, options) ==
    RequestBody("find", query, Undef,
                IF HasKey(DefaultTo(options, EmptyObject), "limit")
                THEN DefaultTo(options, EmptyObject)
                ELSE SpreadSet(DefaultTo(options, EmptyObject), "limit", Num("1")))

findOne(query, options) ==
    RequestBody("find", query, Undef,
                SpreadSet(DefaultTo(options, EmptyObject), "limit", Num("1")))

create(document, options) ==
    RequestBody("create", Undef, document, DefaultTo(options, EmptyObject))

\* createBatch handing the options of its argument on to request()
createBatchPassesOptions(batch) ==
    RequestBody("batchCreate", Undef, Get(batch, "items"),
                Get(batch, "options"))

createBatch(batch) ==
    RequestBody("batchCreate", Undef, Get(batch, "items"), Undef)

updateBatch(queries) ==
    RequestBody("batchUpdate", queries, Undef, Undef)

\* bulkWrite wrapping whatever it is given, an array included
bulkWriteAlwaysWraps(operations, options) ==
    RequestBody("bulkWrite", Arr(<<operations>>), Undef,
                DefaultTo(options, EmptyObject))

bulkWrite(operations, options) ==
    LET ops == IF IsArray(operations) THEN operations ELSE Arr(<<operations>>)
    IN RequestBody("bulkWrite", ops, Undef, DefaultTo(options, EmptyObject))

\* stage => stage.stage over the elements of an array
MapStage(items) == [i \in 1..Len(items) |-> Get(items[i], "stage")]

\* the normalization without the branch for an array of enveloped stages
normalizedPipelineEnvelopeOnly(pipeline) ==
    IF HasKey(pipeline, "pipeline")
    THEN Arr(MapStage(Get(pipeline, "pipeline").items))
    ELSE pipeline

\* the normalization telling an array of enveloped stages by its last
\* element instead of its first
normalizedPipelineTestsLast(pipeline) ==
    IF HasKey(pipeline, "pipeline")
    THEN Arr(MapStage(Get(pipeline, "pipeline").items))
    ELSE IF /\ IsArray(pipeline)
            /\ Len(pipeline.items) > 0
            /\ HasKey(pipeline.items[Len(pipeline.items)], "stage")
    THEN Arr(MapStage(pipeline.items))
    ELSE pipeline

normalizedPipeline(pipeline) ==
    IF HasKey(pipeline, "pipeline")
    THEN Arr(MapStage(Get(pipeline, "pipeline").items))
    ELSE IF /\ IsArray(pipeline)
            /\ Len(pipeline.items) > 0
            /\ HasKey(pipeline.items[1], "stage")
    THEN Arr(MapStage(pipeline.items))
    ELSE pipeline

aggregate(pipeline) ==
    RequestBody("aggregate", normalizedPipeline(pipeline), Undef, Undef)

updateInternal(query, update, options, operation) ==
    RequestBody(operation, query, update, DefaultTo(options, EmptyObject))

deleteInternal(query, options, operation) ==
    RequestBody(operation, query, Undef, DefaultTo(options, EmptyObject))

(***************************************************************************)
(* request(): the canonical array, lines 374-380.                          *)
(***************************************************************************)
NoOptionsOperations == {"aggregate", "batchUpdate", "bulkWrite"}

\* the array with the options element withheld from aggregate and
\* batchUpdate only
arrayBodyOptionsOnBulkWrite(body) ==
    LET base == <<Str(body.operation), body.query>>
        withDocument ==
            IF Truthy(body.document) /\ body.operation # "aggregate"
            THEN Append(base, body.document)
            ELSE base
    IN IF body.operation \notin {"aggregate", "batchUpdate"}
       THEN Append(withDocument,
                   IF Truthy(body.selectOptions) THEN body.selectOptions
                   ELSE EmptyObject)
       ELSE withDocument

\* the array with the document slot pushed whether or not there is a
\* document
arrayBodyAlwaysDocument(body) ==
    LET withDocument == <<Str(body.operation), body.query, body.document>>
    IN IF body.operation \notin NoOptionsOperations
       THEN Append(withDocument,
                   IF Truthy(body.selectOptions) THEN body.selectOptions
                   ELSE EmptyObject)
       ELSE withDocument

\* arrayBody that pushes the options only when the descriptor has some
arrayBodyOptionsWhenGiven(body) ==
    LET base == <<Str(body.operation), body.query>>
        withDocument ==
            IF Truthy(body.document) /\ body.operation # "aggregate"
            THEN Append(base, body.document) ELSE base
    IN IF body.operation \notin NoOptionsOperations /\ Truthy(body.selectOptions)
       THEN Append(withDocument, body.selectOptions)
       ELSE withDocument

\* arrayBody that leaves out the query slot of an operation without a query
arrayBodyDropsAbsentQuery(body) ==
    LET base == IF body.query.t = "undefined"
                THEN <<Str(body.operation)>>
                ELSE <<Str(body.operation), body.query>>
        withDocument ==
            IF Truthy(body.document) /\ body.operation # "aggregate"
            THEN Append(base, body.document) ELSE base
    IN IF body.operation \notin NoOptionsOperations
       THEN Append(withDocument, IF Truthy(body.selectOptions) THEN body.selectOptions ELSE EmptyObject)
       ELSE withDocument

arrayBody(body) ==
    LET base == <<Str(body.operation), body.query>>
        withDocument ==
            IF Truthy(body.document) /\ body.operation # "aggregate"
            THEN Append(base, body.document)
            ELSE base
    IN IF body.operation \notin NoOptionsOperations
       THEN Append(withDocument,
                   IF Truthy(body.selectOptions) THEN body.selectOptions
                   ELSE EmptyObject)
       ELSE withDocument

\* the init object of the fetch call, lines 385-392
fetchInit(client, array, signature) ==
    [url |-> client.baseUrl, method |-> "POST",
     contentType |-> "application/json", sig |-> signature,
     body |-> JSONstringify(Arr(array))]

NoRequest ==
    [url |-> "", method |-> "", contentType |-> "", sig |-> "", body |-> ""]

(***************************************************************************)
(* The transport: what fetch can deliver, and the Response body methods.   *)
(***************************************************************************)
ErrorBody(message, code) ==
    Obj(<<Prop("error",
              Obj(<<Prop("message", Str(message)), Prop("code", Str(code))>>))>>)

\* JSON values a server sends
JsonBodies ==
    { Arr(<<>>),
      Arr(<<Obj(<<Prop("id", Str("i1"))>>), Obj(<<Prop("id", Str("i2"))>>)>>),
      Obj(<<Prop("acknowledged", Bool(TRUE)), Prop("modifiedCount", Num("1"))>>),
      ErrorBody("bad query", "BAD_QUERY"),
      ErrorBody("not found", "NOT_FOUND"),
      Obj(<<Prop("error", ErrorBody("deep", "NESTED"))>>),
      Obj(<<Prop("message", Str("plain"))>>),
      Obj(<<Prop("error", Str("denied"))>>),
      Num("0"),
      Null }

\* response bodies as text: the JSON texts, a text that is not JSON, and
\* the empty body
BodyTexts ==
    { JSONstringify(v) : v \in JsonBodies } \cup {"Internal Server Error", ""}

Statuses == {200, 204, 304, 400, 500}

\* the statuses whose response has no body at all (a null body)
NullBodyStatuses == {204, 304}

\* Response.ok
ok(status) == status \in 200..299

\* JSON.parse, on the texts above: the value whose serialization the text
\* is, or a SyntaxError
JSONparse(text) ==
    IF \E v \in JsonBodies : JSONstringify(v) = text
    THEN [ok |-> TRUE, value |-> CHOOSE v \in JsonBodies : JSONstringify(v) = text]
    ELSE [ok |-> FALSE, value |-> Undef]

NoResponse == [status |-> 0, text |-> "", bodyUsed |-> FALSE]

\* the body mixin behind response.json() and response.text(): the first
\* read takes the text and marks the body used, a read of a used body
\* rejects; a null body reads as the empty text and is never used
consumeBody(response) ==
    IF response.status \in NullBodyStatuses
    THEN [ok |-> TRUE, text |-> "", response |-> response]
    ELSE IF response.bodyUsed
    THEN [ok |-> FALSE, text |-> "", response |-> response]
    ELSE [ok |-> TRUE, text |-> response.text,
          response |-> [response EXCEPT !.bodyUsed = TRUE]]

NoRead == [ok |-> FALSE, text |-> ""]

(***************************************************************************)
(* How a call ends.                                                        *)
(***************************************************************************)
Pending == [state |-> "pending", value |-> Undef, name |-> "", message |-> ""]
Returned(v) == [state |-> "returned", value |-> v, name |-> "", message |-> ""]
Threw(name, message) ==
    [state |-> "threw", value |-> Undef, name |-> name, message |-> message]

NetworkErrorMessage ==
    "Network error occurred while attempting to reach the server."

BodyUnusableMessage == "Body is unusable: Body has already been read"

\* String(v), as `new Error(v)` applies it to a defined message
JSString(v) ==
    CASE v.t \in {"string", "number", "boolean"} -> v.s
      [] v.t = "null" -> "null"
      [] v.t = "array" -> StringifyElems(v.items)
      [] OTHER -> "[object Object]"

\* errorJson?.error || errorJson, line 409
errorMessageOf(errorJson) ==
    IF Truthy(Get(errorJson, "error")) THEN Get(errorJson, "error")
    ELSE errorJson

\* reconcile that also returns, in throwing mode, an error value that has
\* no `error` property to take the message from
reconcileLenient(client, errorMessage) ==
    IF client.silentReturn THEN Returned(errorMessage)
    ELSE IF errorMessage.t \in {"undefined", "null"}
    THEN Returned(errorMessage)
    ELSE IF Get(errorMessage, "error").t \in {"undefined", "null"}
    THEN Returned(errorMessage)
    ELSE IF Get(Get(errorMessage, "error"), "message").t = "undefined"
    THEN Threw("Error", "")
    ELSE Threw("Error", JSString(Get(Get(errorMessage, "error"), "message")))

\* lines 420-423: return the error value, or throw
\* new Error(errorMessage.error.message)
reconcile(client, errorMessage) ==
    IF client.silentReturn THEN Returned(errorMessage)
    ELSE IF errorMessage.t \in {"undefined", "null"}
    THEN Threw("TypeError",
               "Cannot read properties of " \o errorMessage.t
               \o " (reading 'error')")
    ELSE IF Get(errorMessage, "error").t \in {"undefined", "null"}
    THEN Threw("TypeError",
               "Cannot read properties of " \o Get(errorMessage, "error").t
               \o " (reading 'message')")
    ELSE IF Get(Get(errorMessage, "error"), "message").t = "undefined"
    THEN Threw("Error", "")
    ELSE Threw("Error", JSString(Get(Get(errorMessage, "error"), "message")))

\* wrapperResult with find, too, taking the first element of an array
wrapperResultFindFirst(method, outcome) ==
    IF /\ method \in {"find", "findOne"}
       /\ outcome.state = "returned"
       /\ IsArray(outcome.value)
    THEN Returned(IF Len(outcome.value.items) > 0
                  THEN outcome.value.items[1] ELSE Undef)
    ELSE outcome

\* what the wrapper makes of request()'s outcome: findOne takes the first
\* element of an array (lines 454-457), the others pass it on
wrapperResult(method, outcome) ==
    IF /\ method = "findOne"
       /\ outcome.state = "returned"
       /\ IsArray(outcome.value)
    THEN Returned(IF Len(outcome.value.items) > 0
                  THEN outcome.value.items[1] ELSE Undef)
    ELSE outcome

(***************************************************************************)
(* State.  clients: the client objects by slot.  calls: the invocations of *)
(* wrapper methods by slot; pc is where the invocation is suspended:       *)
(*   idle     not invoked yet                                              *)
(*   fetch    awaiting fetch(), line 385                                   *)
(*   errJson  awaiting response.json() of a non-ok response, line 408      *)
(*   errText  awaiting response.text() in the catch, line 415              *)
(*   okJson   awaiting response.json() of an ok response, line 426         *)
(*   done     settled                                                      *)
(* trace lists, in the order the code runs them, the steps the call has    *)
(* taken: arrayBody (lines 374-380), generateSignature (382), fetch (385), *)
(* json (408, 426), text (415), return, throw.  args holds the values the  *)
(* caller passed, callerArgs the caller's objects as the call left them.   *)
(* outcome is how request() settled, result how the wrapper did.           *)
(***************************************************************************)
IdleCall(c) ==
    [pc |-> "idle", client |-> c, method |-> "", args |-> <<>>,
     body |-> NoBody, arrayBody |-> <<>>, now |-> 0, signature |-> "",
     request |-> NoRequest, response |-> NoResponse, read |-> NoRead,
     outcome |-> Pending, result |-> Pending, trace |-> <<>>,
     callerArgs |-> <<>>]

\* the client object call k is made on
ClientOf(k) == clients[calls[k].client]

Invoked(k) == calls[k].pc # "idle"

Done(k) == calls[k].pc = "done"

\* call k issued its POST
Sent(k) == calls[k].request.method # ""

\* the step a settling call takes last
SettleStep(outcome) == IF outcome.state = "returned" THEN "return" ELSE "throw"

\* the call settles: the wrapper's promise takes request()'s outcome
Settle(k, outcome) ==
    calls' = [calls EXCEPT ![k] =
        [@ EXCEPT !.pc = "done",
                  !.outcome = outcome,
                  !.result = wrapperResult(calls[k].method, outcome),
                  !.trace = Append(@, SettleStep(outcome))]]

\* findOne setting the limit on the caller's options object
\* (options.limit = 1) instead of spreading it into a new one
argumentWritesFindOneLimit(method, args) ==
    IF method = "findOne" THEN << <<2, "limit", Num("1")>> >> ELSE <<>>

\* the assignments a call makes to properties of the caller's argument
\* objects, as <<argument, key, value>>: findOne spreads the options into a
\* new object (line 452), aggregate maps into a new array (520, 523),
\* bulkWrite wraps into a new array (501), request() pushes onto its own
\* array literal (374-380); no statement assigns into an argument
argumentWrites(method, args) == <<>>

\* the caller's argument objects after the assignments ws; an argument
\* left out has no object to assign to
RECURSIVE ApplyWrites(_, _)
ApplyWrites(args, ws) ==
    IF ws = <<>> THEN args
    ELSE LET w == Head(ws)
             written == IF args[w[1]].t = "object"
                        THEN [args EXCEPT ![w[1]] = SpreadSet(@, w[2], w[3])]
                        ELSE args
         IN ApplyWrites(written, Tail(ws))

\* Invoke behind a request queue: a call waits until no other call on the
\* client is in flight
InvokeQueued(k, method, args, body, now) ==
    LET client == clients[calls[k].client]
        array == arrayBody(body)
        signature == generateSignature(client, Arr(array), now)
        started == [calls[k] EXCEPT !.method = method, !.args = args,
                        !.callerArgs =
                            ApplyWrites(args, argumentWrites(method, args)),
                        !.body = body, !.arrayBody = array, !.now = now,
                        !.trace = <<"arrayBody", "generateSignature">>]
        failed(name, message) ==
            [started EXCEPT !.pc = "done",
                            !.outcome = Threw(name, message),
                            !.result = Threw(name, message),
                            !.trace = Append(@, "throw")]
    IN /\ calls[k].pc = "idle"
       /\ client.live
       /\ \A j \in DOMAIN calls :
             calls[j].client = calls[k].client
             => calls[j].pc \in {"idle", "done"}
       /\ calls' = [calls EXCEPT ![k] =
              IF ~Serializable(Arr(array))
              THEN failed("TypeError", BigIntMessage)
              ELSE IF createHmacThrows(client.privateKey)
              THEN failed("Error", SignatureErrorMessage)
              ELSE [started EXCEPT !.pc = "fetch",
                                   !.signature = signature,
                                   !.request =
                                       fetchInit(client, array, signature),
                                   !.trace = Append(@, "fetch")]]
       /\ UNCHANGED clients

\* Invoke whose generateSignature swallows the HMAC's exception and
\* returns undefined, so that the POST goes out with no token
InvokeSendsUnsigned(k, method, args, body, now) ==
    LET client == clients[calls[k].client]
        array == arrayBody(body)
        signature == IF createHmacThrows(client.privateKey) THEN "undefined"
                     ELSE generateSignature(client, Arr(array), now)
        started == [calls[k] EXCEPT !.method = method, !.args = args,
                        !.callerArgs =
                            ApplyWrites(args, argumentWrites(method, args)),
                        !.body = body, !.arrayBody = array, !.now = now,
                        !.trace = <<"arrayBody", "generateSignature">>]
        failed(name, message) ==
            [started EXCEPT !.pc = "done",
                            !.outcome = Threw(name, message),
                            !.result = Threw(name, message),
                            !.trace = Append(@, "throw")]
    IN /\ calls[k].pc = "idle"
       /\ client.live
       /\ calls' = [calls EXCEPT ![k] =
              IF ~Serializable(Arr(array))
              THEN failed("TypeError", BigIntMessage)
              ELSE [started EXCEPT !.pc = "fetch",
                                   !.signature = signature,
                                   !.request =
                                       fetchInit(client, array, signature),
                                   !.trace = Append(@, "fetch")]]
       /\ UNCHANGED clients

\* the synchronous part of a wrapper call: the wrapper builds its
\* descriptor, request() builds the array, signs it and issues the POST
\* (lines 374-392), and suspends on it; when JSON.stringify (line 355) or
\* the HMAC (lines 357-368) throws, request() rejects before any fetch
Invoke(k, method, args, body, now) ==
    LET client == clients[calls[k].client]
        array == arrayBody(body)
        signature == generateSignature(client, Arr(array), now)
        started == [calls[k] EXCEPT !.method = method, !.args = args,
                        !.callerArgs =
                            ApplyWrites(args, argumentWrites(method, args)),
                        !.body = body, !.arrayBody = array, !.now = now,
                        !.trace = <<"arrayBody", "generateSignature">>]
        failed(name, message) ==
            [started EXCEPT !.pc = "done",
                            !.outcome = Threw(name, message),
                            !.result = Threw(name, message),
                            !.trace = Append(@, "throw")]
    IN /\ calls[k].pc = "idle"
       /\ client.live
       /\ calls' = [calls EXCEPT ![k] =
              IF ~Serializable(Arr(array))
              THEN failed("TypeError", BigIntMessage)
              ELSE IF createHmacThrows(client.privateKey)
              THEN failed("Error", SignatureErrorMessage)
              ELSE [started EXCEPT !.pc = "fetch",
                                   !.signature = signature,
                                   !.request =
                                       fetchInit(client, array, signature),
                                   !.trace = Append(@, "fetch")]]
       /\ UNCHANGED clients

\* New as a reconfiguring operation: it also runs on a client that is
\* already constructed
NewReconfigures(c, authorizerId, secret, privateKey, silentReturn, url) ==
    /\ clients[c].error = ""
    /\ clients' = [clients EXCEPT ![c] =
           constructor(authorizerId, secret, privateKey, silentReturn, url)]
    /\ UNCHANGED calls

New(c, authorizerId, secret, privateKey, silentReturn, url) ==
    /\ ~clients[c].live
    /\ clients[c].error = ""
    /\ clients' = [clients EXCEPT ![c] =
           constructor(authorizerId, secret, privateKey, silentReturn, url)]
    /\ UNCHANGED calls

Find(k, query, options, now) ==
    Invoke(k, "find", <<query, options>>, find(query, options), now)

FindOne(k, query, options, now) ==
    Invoke(k, "findOne", <<query, options>>, findOne(query, options), now)

Create(k, document, options, now) ==
    Invoke(k, "create", <<document, options>>, create(document, options), now)

CreateBatch(k, batch, now) ==
    Invoke(k, "createBatch", <<batch>>, createBatch(batch), now)

UpdateBatch(k, queries, now) ==
    Invoke(k, "updateBatch", <<queries>>, updateBatch(queries), now)

BulkWrite(k, operations, options, now) ==
    Invoke(k, "bulkWrite", <<operations, options>>,
           bulkWrite(operations, options), now)

Aggregate(k, pipeline, now) ==
    Invoke(k, "aggregate", <<pipeline>>, aggregate(pipeline), now)

UpdateOne(k, query, update, options, now) ==
    Invoke(k, "updateOne", <<query, update, options>>,
           updateInternal(query, update, options, "updateOne"), now)

Update(k, query, update, options, now) ==
    Invoke(k, "update", <<query, update, options>>,
           updateInternal(query, update, options, "update"), now)

\* updateMany sending the operation name "update", as an earlier revision
\* of the client did
UpdateManySendsUpdate(k, query, update, options, now) ==
    Invoke(k, "updateMany", <<query, update, options>>,
           updateInternal(query, update, options, "update"), now)

UpdateMany(k, query, update, options, now) ==
    Invoke(k, "updateMany", <<query, update, options>>,
           updateInternal(query, update, options, "updateMany"), now)

DeleteOne(k, query, options, now) ==
    Invoke(k, "deleteOne", <<query, options>>,
           deleteInternal(query, options, "deleteOne"), now)

Delete(k, query, options, now) ==
    Invoke(k, "delete", <<query, options>>,
           deleteInternal(query, options, "delete"), now)

DeleteMany(k, query, options, now) ==
    Invoke(k, "deleteMany", <<query, options>>,
           deleteInternal(query, options, "deleteMany"), now)

\* a rejected fetch answered by issuing the POST once more
FetchRejectsRetries(k) ==
    /\ calls[k].pc = "fetch"
    /\ IF Len(SelectSeq(calls[k].trace, LAMBDA s : s = "fetch")) < 2
       THEN calls' = [calls EXCEPT ![k].trace = Append(@, "fetch")]
       ELSE Settle(k, Threw("Error", NetworkErrorMessage))
    /\ UNCHANGED clients

\* a rejected fetch put under the silentReturn policy
FetchRejectsSilenced(k) ==
    /\ calls[k].pc = "fetch"
    /\ Settle(k, IF ClientOf(k).silentReturn
                 THEN Returned(ErrorBody("Failed to fetch", "NETWORK_ERROR"))
                 ELSE Threw("Error", NetworkErrorMessage))
    /\ UNCHANGED clients

\* fetch rejects: lines 393-398
FetchRejects(k) ==
    /\ calls[k].pc = "fetch"
    /\ Settle(k, Threw("Error", NetworkErrorMessage))
    /\ UNCHANGED clients

\* fetch resolves with a response: request() tests response.ok and calls
\* response.json() on either branch (lines 400, 408, 426)
FetchResolves(k, status, text) ==
    LET response == [status |-> status, text |-> text, bodyUsed |-> FALSE]
        rd == consumeBody(response)
    IN /\ calls[k].pc = "fetch"
       /\ status \in NullBodyStatuses => text = ""
       /\ calls' = [calls EXCEPT ![k] =
              [@ EXCEPT !.pc = IF ok(status) THEN "okJson" ELSE "errJson",
                        !.response = rd.response,
                        !.read = [ok |-> rd.ok, text |-> rd.text],
                        !.trace = Append(@, "json")]]
       /\ UNCHANGED clients

\* response.json() of a non-ok response settles: lines 408-423
ErrJsonSettles(k) ==
    LET call == calls[k]
        client == clients[call.client]
        parsed == JSONparse(call.read.text)
        rd == consumeBody(call.response)
    IN /\ call.pc = "errJson"
       /\ IF call.read.ok /\ parsed.ok
          THEN Settle(k, reconcile(client, errorMessageOf(parsed.value)))
          ELSE calls' = [calls EXCEPT ![k] =
                   [@ EXCEPT !.pc = "errText",
                             !.response = rd.response,
                             !.read = [ok |-> rd.ok, text |-> rd.text],
                             !.trace = Append(@, "text")]]
       /\ UNCHANGED clients

\* response.text() in the catch settles: lines 413-423
ErrTextSettles(k) ==
    LET call == calls[k]
        client == clients[call.client]
    IN /\ call.pc = "errText"
       /\ IF call.read.ok
          THEN Settle(k, reconcile(client,
                   Obj(<<Prop("error",
                       Obj(<<Prop("message", Str(call.read.text)),
                             Prop("code", Str("PARSE_ERROR"))>>))>>)))
          ELSE Settle(k, Threw("TypeError", BodyUnusableMessage))
       /\ UNCHANGED clients

\* response.json() of an ok response awaited outside any try: the parse
\* error itself leaves request()
OkJsonSettlesUnguarded(k) ==
    LET call == calls[k]
        parsed == JSONparse(call.read.text)
    IN /\ call.pc = "okJson"
       /\ IF call.read.ok /\ parsed.ok
          THEN Settle(k, Returned(parsed.value))
          ELSE Settle(k, Threw("SyntaxError", "Unexpected token in JSON"))
       /\ UNCHANGED clients

\* a parse failure of an ok response put under the silentReturn policy
OkJsonSettlesSilenced(k) ==
    LET call == calls[k]
        parsed == JSONparse(call.read.text)
    IN /\ call.pc = "okJson"
       /\ IF call.read.ok /\ parsed.ok
          THEN Settle(k, Returned(parsed.value))
          ELSE Settle(k, reconcile(ClientOf(k),
                   ErrorBody("Failed to parse response", "PARSE_ERROR")))
       /\ UNCHANGED clients

\* response.json() of an ok response settles: lines 425-430
\* response.json() of an ok response whose parse failure settles nothing:
\* the call stays suspended
OkJsonSettlesParsedOnly(k) ==
    LET call == calls[k]
        parsed == JSONparse(call.read.text)
    IN /\ call.pc = "okJson"
       /\ call.read.ok /\ parsed.ok
       /\ Settle(k, Returned(parsed.value))
       /\ UNCHANGED clients

OkJsonSettles(k) ==
    LET call == calls[k]
        parsed == JSONparse(call.read.text)
    IN /\ call.pc = "okJson"
       /\ IF call.read.ok /\ parsed.ok
          THEN Settle(k, Returned(parsed.value))
          ELSE Settle(k, Threw("Error", "Failed to parse response"))
       /\ UNCHANGED clients

(***************************************************************************)
(* One client, one call at a time, every argument of the input space.      *)
(***************************************************************************)
Init ==
    /\ clients = [c \in {1} |-> NoClient]
    /\ calls = [k \in {1} |-> IdleCall(1)]

Next ==
    \/ \E c \in DOMAIN clients, a \in AuthorizerIds, s \in Secrets,
          p \in PrivateKeys, silent \in BOOLEAN, url \in Urls :
          New(c, a, s, p, silent, url)
    \/ \E k \in DOMAIN calls, q \in Queries, o \in OptionArgs, t \in Times :
          Find(k, q, o, t)
    \/ \E k \in DOMAIN calls, q \in Queries, o \in OptionArgs, t \in Times :
          FindOne(k, q, o, t)
    \/ \E k \in DOMAIN calls, d \in Items, o \in OptionArgs, t \in Times :
          Create(k, d, o, t)
    \/ \E k \in DOMAIN calls, b \in BatchCreateArgs, t \in Times :
          CreateBatch(k, b, t)
    \/ \E k \in DOMAIN calls, qs \in BatchUpdateArgs, t \in Times :
          UpdateBatch(k, qs, t)
    \/ \E k \in DOMAIN calls, ops \in BulkWriteArgs, o \in BulkOptionArgs,
          t \in Times :
          BulkWrite(k, ops, o, t)
    \/ \E k \in DOMAIN calls, p \in PipelineArgs, t \in Times :
          Aggregate(k, p, t)
    \/ \E k \in DOMAIN calls, q \in Queries, u \in Updates, o \in OptionArgs,
          t \in Times :
          UpdateOne(k, q, u, o, t)
    \/ \E k \in DOMAIN calls, q \in Queries, u \in Updates, o \in OptionArgs,
          t \in Times :
          Update(k, q, u, o, t)
    \/ \E k \in DOMAIN calls, q \in Queries, u \in Updates, o \in OptionArgs,
          t \in Times :
          UpdateMany(k, q, u, o, t)
    \/ \E k \in DOMAIN calls, q \in Queries, o \in OptionArgs, t \in Times :
          DeleteOne(k, q, o, t)
    \/ \E k \in DOMAIN calls, q \in Queries, o \in OptionArgs, t \in Times :
          Delete(k, q, o, t)
    \/ \E k \in DOMAIN calls, q \in Queries, o \in OptionArgs, t \in Times :
          DeleteMany(k, q, o, t)
    \/ \E k \in DOMAIN calls : FetchRejects(k)
    \/ \E k \in DOMAIN calls, st \in Statuses, text \in BodyTexts :
          FetchResolves(k, st, text)
    \/ \E k \in DOMAIN calls : ErrJsonSettles(k)
    \/ \E k \in DOMAIN calls : ErrTextSettles(k)
    \/ \E k \in DOMAIN calls : OkJsonSettles(k)

Spec == Init /\ [][Next]_vars

(***************************************************************************)
(* Two clients built from the same credentials and URL, one silent and one *)
(* throwing, one call on each; one argument choice per wrapper.            *)
(***************************************************************************)
One(S) == {CHOOSE x \in S : TRUE}

PairStatuses == {200, 400}

PairTexts ==
    { JSONstringify(Arr(<<Obj(<<Prop("id", Str("i1"))>>),
                          Obj(<<Prop("id", Str("i2"))>>)>>)),
      JSONstringify(Obj(<<Prop("acknowledged", Bool(TRUE)),
                          Prop("modifiedCount", Num("1"))>>)),
      JSONstringify(ErrorBody("bad query", "BAD_QUERY")),
      "Internal Server Error" }

InitPair ==
    /\ clients = [c \in {1, 2} |->
                     constructor("auth1", "sec1", Str("pk1"), c = 1, DefaultUrl)]
    /\ calls = [k \in {1, 2} |-> IdleCall(k)]

NextPair ==
    \/ \E k \in DOMAIN calls, q \in One(Queries), o \in One(OptionArgs),
          t \in One(Times) :
          Find(k, q, o, t)
    \/ \E k \in DOMAIN calls, q \in One(Queries), o \in One(OptionArgs),
          t \in One(Times) :
          FindOne(k, q, o, t)
    \/ \E k \in DOMAIN calls, d \in One(Items), o \in One(OptionArgs),
          t \in One(Times) :
          Create(k, d, o, t)
    \/ \E k \in DOMAIN calls, b \in One(BatchCreateArgs), t \in One(Times) :
          CreateBatch(k, b, t)
    \/ \E k \in DOMAIN calls, qs \in One(BatchUpdateArgs), t \in One(Times) :
          UpdateBatch(k, qs, t)
    \/ \E k \in DOMAIN calls, ops \in One(BulkWriteArgs),
          o \in One(BulkOptionArgs), t \in One(Times) :
          BulkWrite(k, ops, o, t)
    \/ \E k \in DOMAIN calls, p \in One(PipelineArgs), t \in One(Times) :
          Aggregate(k, p, t)
    \/ \E k \in DOMAIN calls, q \in One(Queries), u \in One(Updates),
          o \in One(OptionArgs), t \in One(Times) :
          UpdateOne(k, q, u, o, t)
    \/ \E k \in DOMAIN calls, q \in One(Queries), u \in One(Updates),
          o \in One(OptionArgs), t \in One(Times) :
          Update(k, q, u, o, t)
    \/ \E k \in DOMAIN calls, q \in One(Queries), u \in One(Updates),
          o \in One(OptionArgs), t \in One(Times) :
          UpdateMany(k, q, u, o, t)
    \/ \E k \in DOMAIN calls, q \in One(Queries), o \in One(OptionArgs),
          t \in One(Times) :
          DeleteOne(k, q, o, t)
    \/ \E k \in DOMAIN calls, q \in One(Queries), o \in One(OptionArgs),
          t \in One(Times) :
          Delete(k, q, o, t)
    \/ \E k \in DOMAIN calls, q \in One(Queries), o \in One(OptionArgs),
          t \in One(Times) :
          DeleteMany(k, q, o, t)
    \/ \E k \in DOMAIN calls : FetchRejects(k)
    \/ \E k \in DOMAIN calls, st \in PairStatuses, text \in PairTexts :
          FetchResolves(k, st, text)
    \/ \E k \in DOMAIN calls : ErrJsonSettles(k)
    \/ \E k \in DOMAIN calls : ErrTextSettles(k)
    \/ \E k \in DOMAIN calls : OkJsonSettles(k)

SpecPair == InitPair /\ [][NextPair]_vars

(***************************************************************************)
(* Properties of the error handling.                                       *)
(***************************************************************************)

\* fetch produced no response for call k
NoResponseReceived(k) ==
    Done(k) /\ Sent(k) /\ calls[k].response.status = 0

\* the (message, code) pairs of the structured error bodies a server sends
StructuredErrors ==
    { <<"bad query", "BAD_QUERY">>, <<"not found", "NOT_FOUND">> }

\* call k settled on a non-2xx response whose body is {error:{message:m, code:c}}
GotStructuredError(k, m, c) ==
    /\ Done(k)
    /\ calls[k].response.status # 0
    /\ ~ok(calls[k].response.status)
    /\ calls[k].response.text = JSONstringify(ErrorBody(m, c))

\* C1: with silentReturn = true, a non-2xx response with body
\* {error:{message:m, code:c}} makes the call resolve, without raising, to
\* the value {error:{message:m, code:c}}, which has an `error` property.
C1_SilentReturnsErrorValue ==
    \A k \in DOMAIN calls : \A e \in StructuredErrors :
        (GotStructuredError(k, e[1], e[2]) /\ ClientOf(k).silentReturn)
        => /\ calls[k].result.state = "returned"
           /\ HasKey(calls[k].result.value, "error")
           /\ calls[k].result.value = ErrorBody(e[1], e[2])

\* C2: with silentReturn = false, a non-2xx response with body
\* {error:{message:m, code:c}} makes the call raise an error whose message
\* is exactly m.
C2_ThrowingRaisesMessage ==
    \A k \in DOMAIN calls : \A e \in StructuredErrors :
        (GotStructuredError(k, e[1], e[2]) /\ ~ClientOf(k).silentReturn)
        => /\ calls[k].result.state = "threw"
           /\ calls[k].result.message = e[1]

\* call k settled on a 2xx response whose body is not JSON
GotUnparsableSuccess(k) ==
    /\ Done(k)
    /\ ok(calls[k].response.status)
    /\ ~JSONparse(calls[k].response.text).ok

\* C3: a 2xx response whose body cannot be parsed as JSON makes the call
\* raise "Failed to parse response", whatever silentReturn is; no value is
\* returned.
C3_UnparsableSuccessRaises ==
    \A k \in DOMAIN calls :
        GotUnparsableSuccess(k)
        => calls[k].result = Threw("Error", "Failed to parse response")

C3_Witness ==
    \E k \in DOMAIN calls :
        /\ GotUnparsableSuccess(k)
        /\ ClientOf(k).silentReturn
        /\ calls[k].response.text = "Internal Server Error"
        /\ calls[k].result.state = "threw"

\* C4: when fetch rejects, the call raises the network error, whatever
\* silentReturn is, and returns no error value.
C4_NetworkFailureRaises ==
    \A k \in DOMAIN calls :
        NoResponseReceived(k)
        => calls[k].result = Threw("Error", NetworkErrorMessage)

C4_Witness ==
    \E k \in DOMAIN calls :
        /\ NoResponseReceived(k)
        /\ ClientOf(k).silentReturn
        /\ calls[k].result.state = "threw"

\* clients a and b differ in silentReturn and in nothing else
DifferOnlyInSilentReturn(a, b) ==
    /\ a.live /\ b.live
    /\ a.silentReturn # b.silentReturn
    /\ [a EXCEPT !.silentReturn = b.silentReturn] = b

\* calls j and k are the same call with the same transport outcome
SameCallSameOutcome(j, k) ==
    /\ Done(j) /\ Done(k)
    /\ calls[j].method = calls[k].method
    /\ calls[j].args = calls[k].args
    /\ calls[j].now = calls[k].now
    /\ calls[j].response.status = calls[k].response.status
    /\ calls[j].response.text = calls[k].response.text

\* call k received a non-2xx response
GotErrorStatus(k) ==
    calls[k].response.status # 0 /\ ~ok(calls[k].response.status)

\* C5: two clients that differ only in silentReturn give the same result
\* (same returned value or same raised error) to the same call with the
\* same transport outcome, unless that outcome is a non-2xx response.
C5_SilentReturnOnlyOnErrorStatus ==
    \A j, k \in DOMAIN calls :
        ( /\ DifferOnlyInSilentReturn(ClientOf(j), ClientOf(k))
          /\ SameCallSameOutcome(j, k)
          /\ ~GotErrorStatus(j) )
        => calls[j].result = calls[k].result

C5_Witness ==
    \E j, k \in DOMAIN calls :
        /\ DifferOnlyInSilentReturn(ClientOf(j), ClientOf(k))
        /\ SameCallSameOutcome(j, k)
        /\ GotUnparsableSuccess(j)
        /\ calls[j].result = calls[k].result

(***************************************************************************)
(* Properties of the canonical array.                                      *)
(***************************************************************************)
\* C6: the payload signed and the payload transmitted are the same array
\* in the same order: the sig header of the POST is the token computed
\* over exactly the JSON text sent as the request body, which is the
\* serialization of the canonical array.
C6_SignedIsSent ==
    \A k \in DOMAIN calls :
        Sent(k)
        => LET client == ClientOf(k)
               request == calls[k].request
           IN /\ request.method = "POST"
              /\ request.url = client.baseUrl
              /\ request.contentType = "application/json"
              /\ request.body = JSONstringify(Arr(calls[k].arrayBody))
              /\ request.sig =
                    client.authorizerId \o "." \o client.secret \o "."
                    \o HmacSha256Hex(client.privateKey.s,
                           request.body \o NumberToString(calls[k].now))
                    \o "." \o Base64Bytes(TimeBytes(calls[k].now))

C6_Witness ==
    \E k \in DOMAIN calls :
        /\ calls[k].pc = "fetch"
        /\ calls[k].method = "updateOne"
        /\ Len(calls[k].arrayBody) = 4
        /\ calls[k].request.sig # ""

\* the wrappers whose operation takes no options element, with the
\* operation name each sends
NoOptionsWrappers ==
    { <<"aggregate", "aggregate">>, <<"updateBatch", "batchUpdate">>,
      <<"bulkWrite", "bulkWrite">> }

\* C7: the canonical arrays of aggregate, batchUpdate and bulkWrite are
\* exactly [operationName, query], with no trailing options element, also
\* when options are passed to the wrapper.
C7_NoTrailingOptions ==
    \A k \in DOMAIN calls : \A w \in NoOptionsWrappers :
        (Invoked(k) /\ calls[k].method = w[1])
        => /\ calls[k].arrayBody = <<Str(w[2]), calls[k].body.query>>
           /\ Sent(k) => calls[k].request.body =
                 "[\"" \o w[2] \o "\","
                 \o JSONstringify(calls[k].body.query) \o "]"

C7_Witness ==
    \E k \in DOMAIN calls :
        /\ Invoked(k)
        /\ calls[k].method = "bulkWrite"
        /\ calls[k].args[2] = Obj(<<Prop("ordered", Bool(TRUE))>>)
        /\ Len(calls[k].arrayBody) = 2

\* the stage-wrapped form of a flat sequence of stages
WrapAll(S) == [i \in 1..Len(S) |-> WrapStage(S[i])]

\* the three shapes in which a caller passes the stages S
ShapesOf(S) == { Arr(S), Arr(WrapAll(S)), WrapPipeline(WrapAll(S)) }

\* C8: for every sequence of stages S, aggregate called with the flat
\* array S, with the stage-wrapped array or with the pipeline-wrapped
\* object sends the same bytes, those of ["aggregate", S]; a flat pipeline
\* is left as it is.
C8_AggregateShapesAgree ==
    \A k \in DOMAIN calls : \A S \in SeqsUpTo(Stages, MaxStages) :
        (Invoked(k) /\ calls[k].method = "aggregate"
            /\ calls[k].args[1] \in ShapesOf(S))
        => /\ calls[k].body.query = Arr(S)
           /\ calls[k].arrayBody = <<Str("aggregate"), Arr(S)>>
           /\ Sent(k) => calls[k].request.body =
                 JSONstringify(Arr(<<Str("aggregate"), Arr(S)>>))

C8_Witness ==
    \E k \in DOMAIN calls : \E S \in SeqsUpTo(Stages, MaxStages) :
        /\ Invoked(k)
        /\ calls[k].method = "aggregate"
        /\ Len(S) = 2
        /\ S[1] # S[2]
        /\ calls[k].args[1] = WrapPipeline(WrapAll(S))
        /\ calls[k].arrayBody = <<Str("aggregate"), Arr(S)>>

\* C9: element 1 of bulkWrite's canonical array is always a sequence: a
\* single operation object op is sent as [op], an array of operations is
\* sent unchanged.
C9_BulkWriteSendsSequence ==
    \A k \in DOMAIN calls :
        (Invoked(k) /\ calls[k].method = "bulkWrite")
        => /\ calls[k].arrayBody[1] = Str("bulkWrite")
           /\ IsArray(calls[k].arrayBody[2])
           /\ IF IsArray(calls[k].args[1])
              THEN calls[k].arrayBody[2] = calls[k].args[1]
              ELSE calls[k].arrayBody[2] = Arr(<<calls[k].args[1]>>)

C9_Witness ==
    \E k \in DOMAIN calls :
        /\ Invoked(k)
        /\ calls[k].method = "bulkWrite"
        /\ calls[k].args[1] \in BulkOps
        /\ calls[k].arrayBody[2] = Arr(<<calls[k].args[1]>>)

\* the descriptor of call k carries a document
CarriesDocument(k) == calls[k].body.document.t # "undefined"

\* the number of elements the canonical array of call k holds after the
\* query slot and before the options element
DocumentSlots(k) ==
    Len(calls[k].arrayBody) - 2
    - (IF calls[k].body.operation \in NoOptionsOperations THEN 0 ELSE 1)

\* C10: the canonical array holds a document element if and only if the
\* descriptor carries a document and the operation is not aggregate; the
\* document then sits directly after the query slot.
C10_DocumentElement ==
    \A k \in DOMAIN calls :
        Invoked(k)
        => IF CarriesDocument(k) /\ calls[k].body.operation # "aggregate"
           THEN /\ DocumentSlots(k) = 1
                /\ calls[k].arrayBody[3] = calls[k].body.document
           ELSE DocumentSlots(k) = 0

C10_Witness ==
    \E k \in DOMAIN calls :
        /\ Invoked(k)
        /\ calls[k].method = "createBatch"
        /\ CarriesDocument(k)
        /\ calls[k].arrayBody[2] = Undef
        /\ calls[k].arrayBody[3] = Get(calls[k].args[1], "items")

\* the wrappers that pass no query, with the operation name each sends
QuerylessWrappers ==
    { <<"create", "create">>, <<"createBatch", "batchCreate">> }

\* C11: element 0 of the canonical array is the operation name and element
\* 1 is the query; create and batchCreate keep the query slot, which is
\* sent as null, so their document sits at index 2 and never at index 1.
C11_OperationThenQuery ==
    \A k \in DOMAIN calls :
        Invoked(k)
        => /\ Len(calls[k].arrayBody) >= 2
           /\ calls[k].arrayBody[1] = Str(calls[k].body.operation)
           /\ calls[k].arrayBody[2] = calls[k].body.query
           /\ \A w \in QuerylessWrappers :
                 calls[k].method = w[1]
                 => /\ calls[k].arrayBody[1] = Str(w[2])
                    /\ calls[k].arrayBody[2] = Undef
                    /\ calls[k].arrayBody[3] = calls[k].body.document
                    /\ Sent(k) =>
                         calls[k].request.body =
                             "[\"" \o w[2] \o "\",null,"
                             \o StringifyElems(Tail(Tail(calls[k].arrayBody)))
                             \o "]"

C11_Witness ==
    \E k \in DOMAIN calls :
        /\ Sent(k)
        /\ calls[k].method = "create"
        /\ calls[k].arrayBody[2] = Undef
        /\ calls[k].arrayBody[3] \in Items
        /\ Len(calls[k].arrayBody) = 4

(***************************************************************************)
(* Properties of the signature.                                            *)
(*                                                                         *)
(* SpecSign runs two calls on two clients whose private keys may differ,   *)
(* so that two signatures can be compared; HmacSha256Hex is injective,     *)
(* which is the collision-freedom the comparison presupposes.              *)
(***************************************************************************)
SignKeys == {Str("pk1"), Str("pk2")}

InitSign ==
    /\ clients \in [{1, 2} ->
           { constructor("auth1", "sec1", key, TRUE, DefaultUrl) :
               key \in SignKeys }]
    /\ calls = [k \in {1, 2} |-> IdleCall(k)]

NextSign ==
    \/ \E k \in DOMAIN calls, q \in Queries, o \in OptionArgs, t \in Times :
          Find(k, q, o, t)
    \/ \E k \in DOMAIN calls, d \in Items, o \in One(OptionArgs),
          t \in Times :
          Create(k, d, o, t)
    \/ \E k \in DOMAIN calls : FetchRejects(k)

SpecSign == InitSign /\ [][NextSign]_vars

\* the positions of the dots of a token
DotsOf(s) == {i \in 1..Len(s) : SubSeq(s, i, i) = "."}

\* the "."-separated segments of a token, as its receiver splits it
Segments(s) ==
    LET dots == DotsOf(s)
        n == Cardinality(dots)
        nth(m) == CHOOSE i \in dots : Cardinality({j \in dots : j < i}) = m - 1
        cut(m) == IF m = 0 THEN 0 ELSE IF m = n + 1 THEN Len(s) + 1 ELSE nth(m)
    IN [m \in 1..(n + 1) |-> SubSeq(s, cut(m - 1) + 1, cut(m) - 1)]

\* the hmacHex segment of the token call k sent
HmacSegment(k) == Segments(calls[k].request.sig)[3]

\* calls j and k signed the same bytes at the same time with the same
\* credentials
SameSigningInputs(j, k) ==
    /\ calls[j].request.body = calls[k].request.body
    /\ calls[j].now = calls[k].now
    /\ ClientOf(j).authorizerId = ClientOf(k).authorizerId
    /\ ClientOf(j).secret = ClientOf(k).secret
    /\ ClientOf(j).privateKey = ClientOf(k).privateKey

\* C12: the token is a function of the payload bytes, the time and the
\* credentials; two signings that differ in the payload, in the time or in
\* the private key have different hmacHex segments.
C12_SignatureDetermined ==
    \A j, k \in DOMAIN calls :
        (Sent(j) /\ Sent(k))
        => /\ SameSigningInputs(j, k)
                => calls[j].request.sig = calls[k].request.sig
           /\ ( \/ calls[j].request.body # calls[k].request.body
                \/ calls[j].now # calls[k].now
                \/ ClientOf(j).privateKey # ClientOf(k).privateKey )
                => HmacSegment(j) # HmacSegment(k)

C12_Witness ==
    \E j, k \in DOMAIN calls :
        /\ Sent(j) /\ Sent(k)
        /\ calls[j].request.body = calls[k].request.body
        /\ ClientOf(j).privateKey = ClientOf(k).privateKey
        /\ calls[j].now # calls[k].now
        /\ HmacSegment(j) # HmacSegment(k)

\* the value of a base64 character
Sextet(ch) == (CHOOSE i \in 1..64 : Base64Alphabet[i] = ch) - 1

\* the bytes a base64 text stands for, four characters to three bytes,
\* fewer where the group is "=" padded
RECURSIVE Base64Decode(_)
Base64Decode(s) ==
    IF Len(s) < 4 THEN <<>>
    ELSE LET c(i) == SubSeq(s, i, i)
             s1 == Sextet(c(1))
             s2 == Sextet(c(2))
             b1 == s1 * 4 + s2 \div 16
             group ==
                 IF c(3) = "=" THEN <<b1>>
                 ELSE LET s3 == Sextet(c(3))
                          b2 == (s2 % 16) * 16 + s3 \div 4
                      IN IF c(4) = "=" THEN <<b1, b2>>
                         ELSE <<b1, b2, (s3 % 4) * 64 + Sextet(c(4))>>
         IN group \o Base64Decode(SubSeq(s, 5, Len(s)))

\* the text of a byte sequence; a byte that is no digit reads as "?"
RECURSIVE BytesToString(_)
BytesToString(bs) ==
    IF bs = <<>> THEN ""
    ELSE (IF Head(bs) \in 48..57 THEN DigitChars[Head(bs) - 47] ELSE "?")
         \o BytesToString(Tail(bs))

\* C13: the token sent is authorizerId "." secret "." hmacHex "." b64Time;
\* base64-decoding b64Time gives the decimal time string, and hmacHex is the
\* HMAC-SHA256, under the private key, of the payload text followed by
\* exactly that time string.
C13_TokenStructure ==
    \A k \in DOMAIN calls :
        Sent(k)
        => LET segment == Segments(calls[k].request.sig)
               time == BytesToString(Base64Decode(segment[4]))
           IN /\ Len(segment) = 4
              /\ segment[1] = ClientOf(k).authorizerId
              /\ segment[2] = ClientOf(k).secret
              /\ time = NumberToString(calls[k].now)
              /\ segment[3] =
                    HmacSha256Hex(ClientOf(k).privateKey.s,
                        JSONstringify(Arr(calls[k].arrayBody)) \o time)

C13_Witness ==
    \E k \in DOMAIN calls :
        /\ Sent(k)
        /\ calls[k].now = 1700
        /\ Segments(calls[k].request.sig)[4] = "MTcwMA=="
        /\ BytesToString(Base64Decode("MTcwMA==")) = "1700"

(***************************************************************************)
(* Properties of the course of a call.                                     *)
(***************************************************************************)
\* generateSignature throws in call k: on the payload, which JSON.stringify
\* refuses, or on the key, which the HMAC refuses
SigningFails(k) ==
    /\ Invoked(k)
    /\ \/ ~Serializable(Arr(calls[k].arrayBody))
       \/ createHmacThrows(ClientOf(k).privateKey)

\* step a comes before step b in the trace of call k
Before(k, a, b) ==
    \E i, j \in 1..Len(calls[k].trace) :
        /\ i < j
        /\ calls[k].trace[i] = a
        /\ calls[k].trace[j] = b

\* the trace of call k holds step a
Took(k, a) == \E i \in 1..Len(calls[k].trace) : calls[k].trace[i] = a

\* a call that issued its POST signed first, and sent the token it computed
SignedBeforeSent(k) ==
    Took(k, "fetch")
    => /\ Before(k, "generateSignature", "fetch")
       /\ ~SigningFails(k)
       /\ calls[k].request.sig = calls[k].signature
       /\ Len(Segments(calls[k].request.sig)) = 4

\* C14: a call whose signature generation fails raises "Failed to generate
\* signature" and issues no HTTP request, whatever silentReturn is; a call
\* that issues a request has completed signing before.
C14_SignatureFailureRaises ==
    \A k \in DOMAIN calls :
        /\ SigningFails(k)
           => /\ calls[k].result = Threw("Error", SignatureErrorMessage)
              /\ ~Sent(k)
              /\ ~Took(k, "fetch")
        /\ SignedBeforeSent(k)

\* C14 as the code has it: a call whose signature generation fails raises
\* and issues no HTTP request, whatever silentReturn is; it raises "Failed
\* to generate signature" when the HMAC fails, and the serializer's own
\* TypeError when the payload cannot be serialized; a call that issues a
\* request has completed signing before.
C14_SigningFailureSendsNothing ==
    \A k \in DOMAIN calls :
        /\ SigningFails(k)
           => /\ calls[k].result =
                    IF Serializable(Arr(calls[k].arrayBody))
                    THEN Threw("Error", SignatureErrorMessage)
                    ELSE Threw("TypeError", BigIntMessage)
              /\ ~Sent(k)
              /\ ~Took(k, "fetch")
        /\ SignedBeforeSent(k)

C14_Witness ==
    \E k \in DOMAIN calls :
        /\ SigningFails(k)
        /\ ClientOf(k).silentReturn
        /\ ClientOf(k).privateKey = Num("12345")
        /\ calls[k].result = Threw("Error", SignatureErrorMessage)
        /\ ~Sent(k)

(***************************************************************************)
(* Properties of the client object.                                        *)
(***************************************************************************)
\* one of the three credentials passed is falsy
SomeFalsy(authorizerId, secret, privateKey) ==
    authorizerId = "" \/ secret = "" \/ ~Truthy(privateKey)

\* every client object holds three non-empty credentials
CredentialsPresent ==
    \A c \in DOMAIN clients :
        clients[c].live
        => /\ clients[c].authorizerId # ""
           /\ clients[c].secret # ""
           /\ Truthy(clients[c].privateKey)

\* C15: constructing a client raises if and only if one of authorizerId,
\* secret, privateKey is falsy, whatever silentReturn is passed; a client
\* that was constructed stores the three credentials passed, all non-empty,
\* and no client object holds an empty credential.
C15_ConstructionRaisesIffFalsy ==
    /\ []CredentialsPresent
    /\ [][ \A c \in DOMAIN clients, a \in AuthorizerIds, s \in Secrets,
              p \in PrivateKeys, silent \in BOOLEAN, url \in Urls :
              New(c, a, s, p, silent, url)
              => /\ clients'[c].error # "" <=> SomeFalsy(a, s, p)
                 /\ clients'[c].live <=> ~SomeFalsy(a, s, p)
                 /\ clients'[c].live
                    => /\ clients'[c].authorizerId = a
                       /\ clients'[c].secret = s
                       /\ clients'[c].privateKey = p
                       /\ clients'[c].silentReturn = silent ]_vars

C15_Witness ==
    \E c \in DOMAIN clients :
        /\ ~clients[c].live
        /\ clients[c].error = "secret is required"

\* the phase a step of the trace belongs to; the body reads (json, text)
\* belong to the phase Sent
TerminalPhases == {"Succeeded", "FailedRemote", "FailedTransport"}

\* the terminal phase of a settled call, by the branch of request() that
\* settled it; a call that never issued its POST has none of the three
Terminal(k) ==
    IF ~Took(k, "fetch") THEN "FailedSigning"
    ELSE IF calls[k].response.status = 0 THEN "FailedTransport"
    ELSE IF ~ok(calls[k].response.status) THEN "FailedRemote"
    ELSE IF calls[k].result.state = "returned" THEN "Succeeded"
    ELSE "FailedTransport"

PhaseOf(k, step) ==
    CASE step = "arrayBody" -> "Building"
      [] step = "generateSignature" -> "Signing"
      [] step = "fetch" -> "Sent"
      [] OTHER -> Terminal(k)

\* the phases call k has entered, in order
PhaseTrace(k) ==
    LET steps == SelectSeq(calls[k].trace,
                    LAMBDA s : s \notin {"json", "text"})
    IN [i \in 1..Len(steps) |-> PhaseOf(k, steps[i])]

IsPrefix(s, t) == Len(s) <= Len(t) /\ s = SubSeq(t, 1, Len(s))

\* the number of POSTs call k has issued
FetchCount(k) == Len(SelectSeq(calls[k].trace, LAMBDA s : s = "fetch"))

\* a call never leaves a phase for an earlier one: the steps taken are
\* kept, new ones come after them, and a settled call takes no more
OnlyForward ==
    \A k \in DOMAIN calls :
        /\ IsPrefix(calls[k].trace, calls'[k].trace)
        /\ Done(k) => calls'[k] = calls[k]

\* C16: each call goes through Building, Signing, Sent and then exactly
\* one of Succeeded, FailedRemote, FailedTransport, in that order and never
\* backwards, and issues at most one HTTP request: the phases a call has
\* entered so far are always the first phases of that course, and a
\* settled call has entered all four.
C16_PhasesInOrder ==
    \A k \in DOMAIN calls :
        /\ \E t \in TerminalPhases :
              IsPrefix(PhaseTrace(k), <<"Building", "Signing", "Sent", t>>)
        /\ Done(k) => Len(PhaseTrace(k)) = 4
        /\ FetchCount(k) <= 1

\* C16 as the code has it: each call goes through Building and Signing; a
\* call whose signing fails ends there, raising, with no HTTP request; any
\* other call goes on to Sent and then exactly one of Succeeded,
\* FailedRemote, FailedTransport; the order is never left, and a call
\* issues at most one HTTP request.
C16_PhasesInOrderOrUnsent ==
    /\ [](\A k \in DOMAIN calls :
            /\ \/ \E t \in TerminalPhases :
                     IsPrefix(PhaseTrace(k),
                              <<"Building", "Signing", "Sent", t>>)
               \/ /\ SigningFails(k)
                  /\ PhaseTrace(k) = <<"Building", "Signing", "FailedSigning">>
                  /\ calls[k].result.state = "threw"
            /\ Done(k) => \/ Len(PhaseTrace(k)) = 4
                          \/ SigningFails(k) /\ FetchCount(k) = 0
            /\ SigningFails(k) => Done(k) /\ FetchCount(k) = 0
            /\ FetchCount(k) <= 1)
    /\ [][OnlyForward]_vars

C16_Witness ==
    \E k \in DOMAIN calls :
        /\ Done(k)
        /\ GotErrorStatus(k)
        /\ PhaseTrace(k) = <<"Building", "Signing", "Sent", "FailedRemote">>
        /\ FetchCount(k) = 1
        /\ Took(k, "text")

(***************************************************************************)
(* Concurrent calls.                                                       *)
(*                                                                         *)
(* SpecConc runs MaxCalls calls on one client; the steps of the calls      *)
(* interleave at the suspension points of request(): the fetch and the     *)
(* two body reads.                                                         *)
(***************************************************************************)
MaxCalls == 2

ConcStatuses == {200, 400}

ConcTexts ==
    { JSONstringify(Arr(<<Obj(<<Prop("id", Str("i1"))>>),
                          Obj(<<Prop("id", Str("i2"))>>)>>)),
      JSONstringify(ErrorBody("bad query", "BAD_QUERY")),
      "Internal Server Error" }

InitConc ==
    /\ clients \in [{1} ->
           { constructor("auth1", "sec1", Str("pk1"), silent, DefaultUrl) :
               silent \in BOOLEAN }]
    /\ calls = [k \in 1..MaxCalls |-> IdleCall(1)]

NextConc ==
    \/ \E k \in DOMAIN calls, q \in Queries, o \in One(OptionArgs),
          t \in One(Times) :
          Find(k, q, o, t)
    \/ \E k \in DOMAIN calls, q \in One(Queries), o \in One(OptionArgs),
          t \in One(Times) :
          FindOne(k, q, o, t)
    \/ \E k \in DOMAIN calls : FetchRejects(k)
    \/ \E k \in DOMAIN calls, st \in ConcStatuses, text \in ConcTexts :
          FetchResolves(k, st, text)
    \/ \E k \in DOMAIN calls : ErrJsonSettles(k)
    \/ \E k \in DOMAIN calls : ErrTextSettles(k)
    \/ \E k \in DOMAIN calls : OkJsonSettles(k)

SpecConc == InitConc /\ [][NextConc]_vars

\* what call k built and sent is computed from its own arguments and
\* clock reading
OwnRequest(k) ==
    /\ Invoked(k) => calls[k].arrayBody = arrayBody(calls[k].body)
    /\ Sent(k)
       => /\ calls[k].signature =
                generateSignature(ClientOf(k), Arr(calls[k].arrayBody),
                                  calls[k].now)
          /\ calls[k].request =
                fetchInit(ClientOf(k), calls[k].arrayBody, calls[k].signature)

\* calls j and k were made alike and answered alike
SameCourse(j, k) ==
    /\ calls[j].client = calls[k].client
    /\ calls[j].method = calls[k].method
    /\ calls[j].args = calls[k].args
    /\ calls[j].now = calls[k].now
    /\ calls[j].response.status = calls[k].response.status
    /\ calls[j].response.text = calls[k].response.text
    /\ calls[j].trace = calls[k].trace

\* an idle call can be made at once, whatever the other calls are doing
SentAtOnce(k) ==
    calls[k].pc = "idle"
    => ENABLED Find(k, CHOOSE q \in Queries : TRUE,
                    CHOOSE o \in OptionArgs : TRUE,
                    CHOOSE t \in Times : TRUE)

\* a step is a step of one call and leaves every other call, and the
\* client, as they were
OneCallSteps ==
    /\ clients' = clients
    /\ \E k \in DOMAIN calls :
          \A j \in DOMAIN calls \ {k} : calls'[j] = calls[j]

\* C17: with any number of calls in flight on one client, in any
\* interleaving, each call's array, signed payload and result are those of
\* its own arguments, clock reading and response (two calls made alike and
\* answered alike stand alike, whatever ran in between); no step of a call
\* touches another call; and an idle call is sent at once, without waiting
\* for the calls in flight.
C17_CallsIndependent ==
    /\ [](\A k \in DOMAIN calls :
            /\ OwnRequest(k)
            /\ SentAtOnce(k)
            /\ \A j \in DOMAIN calls : SameCourse(j, k) => calls[j] = calls[k])
    /\ [][OneCallSteps]_vars

C17_Witness ==
    \E j, k \in DOMAIN calls :
        /\ j # k
        /\ calls[j].pc = "errText"
        /\ Done(k)
        /\ calls[k].method = "findOne"
        /\ calls[k].result = Returned(Obj(<<Prop("id", Str("i1"))>>))
        /\ calls[j].method = "find"

\* a constructed client keeps its five values through the step
ConfigurationKept ==
    \A c \in DOMAIN clients :
        clients[c].live
        => /\ clients'[c].live
           /\ clients'[c].authorizerId = clients[c].authorizerId
           /\ clients'[c].secret = clients[c].secret
           /\ clients'[c].privateKey = clients[c].privateKey
           /\ clients'[c].baseUrl = clients[c].baseUrl
           /\ clients'[c].silentReturn = clients[c].silentReturn

\* C18: once a client is constructed, no operation on it changes its
\* authorizerId, secret, privateKey, baseUrl or silentReturn.
C18_ConfigurationImmutable == [][ConfigurationKept]_vars

C18_Witness ==
    \E k \in DOMAIN calls :
        /\ Done(k)
        /\ Sent(k)
        /\ calls[k].method = "updateMany"
        /\ ClientOf(k) =
              constructor("auth1", "sec1", Str("pk1"), FALSE,
                          "http://localhost:3000")

(***************************************************************************)
(* Properties of the result.                                               *)
(***************************************************************************)
\* call k received a 2xx response whose body is JSON
GotParsableSuccess(k) ==
    /\ calls[k].response.status # 0
    /\ ok(calls[k].response.status)
    /\ JSONparse(calls[k].response.text).ok

\* C19: on a client with silentReturn = false a call resolves normally if
\* and only if it received a 2xx response whose body parsed as JSON; every
\* non-2xx response, whatever its body, makes the call raise.
C19_ThrowingResolvesOnlyOnSuccess ==
    \A k \in DOMAIN calls :
        (Done(k) /\ ~ClientOf(k).silentReturn)
        => /\ calls[k].result.state \in {"returned", "threw"}
           /\ calls[k].result.state = "returned" <=> GotParsableSuccess(k)
           /\ GotErrorStatus(k) => calls[k].result.state = "threw"

C19_Witness ==
    \E k \in DOMAIN calls :
        /\ Done(k)
        /\ ~ClientOf(k).silentReturn
        /\ calls[k].response.status = 500
        /\ calls[k].response.text = "{\"message\":\"plain\"}"
        /\ calls[k].result.state = "threw"

\* the parsed body of the response call k received
ParsedBody(k) == JSONparse(calls[k].response.text).value

\* C20: on a 2xx response with a parseable body B every wrapper, findOne
\* included, resolves to exactly B.
C20_WrappersReturnBody ==
    \A k \in DOMAIN calls :
        (Done(k) /\ GotParsableSuccess(k))
        => calls[k].result = Returned(ParsedBody(k))

\* C20 as the code has it: on a 2xx response with a parseable body B every
\* wrapper other than findOne resolves to exactly B; findOne resolves to
\* the first element of B when B is an array (undefined when it is empty)
\* and to B otherwise.
C20_WrappersReturnBodyFindOneFirst ==
    \A k \in DOMAIN calls :
        (Done(k) /\ GotParsableSuccess(k))
        => calls[k].result =
              IF calls[k].method = "findOne" /\ IsArray(ParsedBody(k))
              THEN IF ParsedBody(k).items = <<>>
                   THEN Returned(Undef)
                   ELSE Returned(ParsedBody(k).items[1])
              ELSE Returned(ParsedBody(k))

C20_Witness ==
    \E k \in DOMAIN calls :
        /\ Done(k)
        /\ GotParsableSuccess(k)
        /\ calls[k].method = "findOne"
        /\ calls[k].response.text = "[{\"id\":\"i1\"},{\"id\":\"i2\"}]"
        /\ calls[k].result = Returned(Obj(<<Prop("id", Str("i1"))>>))

(***************************************************************************)
(* Properties of the error value built from a non-2xx response.            *)
(***************************************************************************)
\* call k settled on a non-2xx response whose body is there and is not JSON
GotUnparsableError(k) ==
    /\ Done(k)
    /\ GotErrorStatus(k)
    /\ calls[k].response.status \notin NullBodyStatuses
    /\ calls[k].response.text # ""
    /\ ~JSONparse(calls[k].response.text).ok

\* C21: a non-2xx response whose body is there but is not JSON gives the
\* error value {error:{message: <the body text>, code:"PARSE_ERROR"}}: the
\* call returns it when silentReturn is true and raises an error with the
\* body text as message when silentReturn is false.
C21_ParseErrorFallback ==
    \A k \in DOMAIN calls :
        GotUnparsableError(k)
        => calls[k].result =
              IF ClientOf(k).silentReturn
              THEN Returned(ErrorBody(calls[k].response.text, "PARSE_ERROR"))
              ELSE Threw("Error", calls[k].response.text)

\* call k settled on a non-2xx response with no body: a null body, or a
\* body of no bytes
GotEmptyError(k) ==
    /\ Done(k)
    /\ GotErrorStatus(k)
    /\ calls[k].response.text = ""

DefaultError == ErrorBody("Failed to fetch", "NETWORK_ERROR")

\* C22: a non-2xx response with no body at all gives the default error
\* value {error:{message:"Failed to fetch", code:"NETWORK_ERROR"}}: the
\* call returns it when silentReturn is true and raises its message when
\* silentReturn is false.
C22_DefaultErrorOnEmptyBody ==
    \A k \in DOMAIN calls :
        GotEmptyError(k)
        => calls[k].result =
              IF ClientOf(k).silentReturn
              THEN Returned(DefaultError)
              ELSE Threw("Error", "Failed to fetch")

\* the number of reads of the response body call k has started
BodyReads(k) ==
    Len(SelectSeq(calls[k].trace, LAMBDA s : s \in {"json", "text"}))

\* C29: a call reads the body of its response at most once; it never
\* starts a second read (json, then text) of the same response.
C29_BodyReadOnce ==
    \A k \in DOMAIN calls : BodyReads(k) <= 1

OperationKinds ==
    { "find", "create", "batchCreate", "update", "updateOne", "updateMany",
      "delete", "deleteOne", "deleteMany", "batchUpdate", "bulkWrite",
      "aggregate" }

\* the operation name each wrapper is to send
OperationSent ==
    { <<"find", "find">>, <<"findOne", "find">>, <<"create", "create">>,
      <<"createBatch", "batchCreate">>, <<"updateBatch", "batchUpdate">>,
      <<"bulkWrite", "bulkWrite">>, <<"aggregate", "aggregate">>,
      <<"updateOne", "updateOne">>, <<"update", "update">>,
      <<"updateMany", "updateMany">>, <<"deleteOne", "deleteOne">>,
      <<"delete", "delete">>, <<"deleteMany", "deleteMany">> }

\* C24: element 0 of every canonical array is an OperationKind, and it is
\* the wrapper's own operation name: updateOne, update, updateMany,
\* deleteOne, delete, deleteMany, find, create, bulkWrite, aggregate send
\* their own names, createBatch sends "batchCreate", updateBatch sends
\* "batchUpdate", findOne sends "find".
C24_OperationNames ==
    \A k \in DOMAIN calls :
        Invoked(k)
        => /\ calls[k].arrayBody[1].t = "string"
           /\ calls[k].arrayBody[1].s \in OperationKinds
           /\ <<calls[k].method, calls[k].arrayBody[1].s>> \in OperationSent
           /\ Sent(k) =>
                 LET head == "[\"" \o calls[k].arrayBody[1].s \o "\","
                 IN SubSeq(calls[k].request.body, 1, Len(head)) = head

C24_Witness ==
    \E k \in DOMAIN calls :
        /\ Sent(k)
        /\ calls[k].method = "updateMany"
        /\ calls[k].arrayBody[1] = Str("updateMany")

\* the length of the canonical array of each operation that takes options
ShapeLength(operation) ==
    IF operation \in {"find", "delete", "deleteOne", "deleteMany"} THEN 3 ELSE 4

\* the last element of the canonical array of call k
LastElement(k) == calls[k].arrayBody[Len(calls[k].arrayBody)]

\* C25: for every operation other than aggregate, batchUpdate and
\* bulkWrite the canonical array ends with an options element, the
\* descriptor's options or {} when it has none, and the shape is fixed:
\* [op, query, options] for find and the deletes, [op, query, document,
\* options] for the updates, [op, null, document, options] for create and
\* batchCreate.
C25_OptionsLast ==
    \A k \in DOMAIN calls :
        (Invoked(k) /\ calls[k].body.operation \notin NoOptionsOperations)
        => LET body == calls[k].body
               array == calls[k].arrayBody
           IN /\ Len(array) = ShapeLength(body.operation)
              /\ LastElement(k).t = "object"
              /\ LastElement(k) =
                    IF body.selectOptions.t = "undefined"
                    THEN EmptyObject ELSE body.selectOptions
              /\ array[1] = Str(body.operation)
              /\ array[2] = body.query
              /\ Len(array) = 4 => array[3] = body.document
              /\ body.operation \in {"create", "batchCreate"}
                    => array[2] = Undef
              /\ body.operation \notin {"create", "batchCreate"}
                    => array[2].t = "object"

C25_Witness ==
    \E k \in DOMAIN calls :
        /\ Sent(k)
        /\ calls[k].method = "deleteMany"
        /\ calls[k].args[2] = Undef
        /\ calls[k].request.body = "[\"deleteMany\",{\"x\":1},{}]"

\* v is a bare stage operator object: an object without a `stage` envelope
BareStage(v) == v.t = "object" /\ ~HasKey(v, "stage")

\* the elements the caller passed to aggregate, out of their envelope if
\* the argument is a pipeline envelope
PassedStages(k) ==
    IF HasKey(calls[k].args[1], "pipeline")
    THEN Get(calls[k].args[1], "pipeline").items
    ELSE calls[k].args[1].items

\* the caller passed one of the three declared shapes: all elements bare,
\* or all enveloped
UniformStages(k) ==
    \/ \A i \in 1..Len(PassedStages(k)) : BareStage(PassedStages(k)[i])
    \/ \A i \in 1..Len(PassedStages(k)) : HasKey(PassedStages(k)[i], "stage")

\* C26: after aggregate's normalization every element of the query slot
\* is a bare stage operator object, for every input array, mixed ones
\* included: none carries a `stage` envelope, none is undefined or null.
C26_StagesBare ==
    \A k \in DOMAIN calls :
        (Invoked(k) /\ calls[k].method = "aggregate")
        => \A i \in 1..Len(calls[k].body.query.items) :
              BareStage(calls[k].body.query.items[i])

\* C26 as the code has it: the query slot holds bare stages when the
\* caller passed all stages bare, all enveloped, or a pipeline envelope;
\* an array that mixes the two is told by its first element only: with an
\* enveloped first element each bare element becomes undefined, with a
\* bare first element the array is sent as it is, envelopes included.
C26_StagesBareWhenUniform ==
    \A k \in DOMAIN calls :
        (Invoked(k) /\ calls[k].method = "aggregate")
        => LET passed == PassedStages(k)
               query == calls[k].body.query.items
           IN /\ Len(query) = Len(passed)
              /\ UniformStages(k) => \A i \in 1..Len(query) : BareStage(query[i])
              /\ ~UniformStages(k)
                    => IF HasKey(passed[1], "stage")
                       THEN \A i \in 1..Len(query) :
                                query[i] = IF HasKey(passed[i], "stage")
                                           THEN Get(passed[i], "stage")
                                           ELSE Undef
                       ELSE query = passed

C26_Witness ==
    \E k \in DOMAIN calls :
        /\ Sent(k)
        /\ calls[k].method = "aggregate"
        /\ ~UniformStages(k)
        /\ HasKey(PassedStages(k)[1], "stage")
        /\ calls[k].request.body = "[\"aggregate\",[{\"$limit\":5},null]]"

\* the property names of an object
KeysOf(v) == { v.items[i].s : i \in 1..Len(v.items) }

\* C27: findOne sends the operation "find" with an options element whose
\* limit is 1, whatever limit the caller passed, and whose other
\* properties are the caller's; it resolves to the first element of an
\* array result (undefined when the array is empty) and to any other
\* result of request(), a silent-mode error value for one, unchanged; what
\* request() raises, findOne raises.
C27_FindOneLimitAndFirst ==
    \A k \in DOMAIN calls :
        (Invoked(k) /\ calls[k].method = "findOne")
        => LET options == DefaultTo(calls[k].args[2], EmptyObject)
               sent == calls[k].arrayBody[3]
               outcome == calls[k].outcome
           IN /\ Len(calls[k].arrayBody) = 3
              /\ calls[k].arrayBody[1] = Str("find")
              /\ calls[k].arrayBody[2] = calls[k].args[1]
              /\ Get(sent, "limit") = Num("1")
              /\ KeysOf(sent) = KeysOf(options) \cup {"limit"}
              /\ \A key \in KeysOf(options) \ {"limit"} :
                    Get(sent, key) = Get(options, key)
              /\ Done(k)
                 => calls[k].result =
                       IF outcome.state = "returned" /\ IsArray(outcome.value)
                       THEN IF outcome.value.items = <<>>
                            THEN Returned(Undef)
                            ELSE Returned(outcome.value.items[1])
                       ELSE outcome

C27_Witness ==
    \E k \in DOMAIN calls :
        /\ Done(k)
        /\ calls[k].method = "findOne"
        /\ Get(calls[k].args[2], "limit") = Num("5")
        /\ calls[k].arrayBody[3] =
              Obj(<<Prop("limit", Num("1")), Prop("skip", Num("2"))>>)
        /\ calls[k].outcome = Returned(Arr(<<>>))
        /\ calls[k].result = Returned(Undef)

LiveCalls == {1}

InitLive ==
    /\ clients \in [{1} ->
           { constructor("auth1", "sec1", Str("pk1"), silent, url) :
               silent \in BOOLEAN, url \in Urls }]
    /\ calls = [k \in LiveCalls |-> IdleCall(1)]

\* the fetch of call k settles
FetchSettles(k) ==
    \/ FetchRejects(k)
    \/ \E st \in ConcStatuses, text \in ConcTexts : FetchResolves(k, st, text)

\* a body read of call k settles
ReadSettles(k) == ErrJsonSettles(k) \/ ErrTextSettles(k) \/ OkJsonSettles(k)

Fairness ==
    \A k \in LiveCalls : WF_vars(FetchSettles(k)) /\ WF_vars(ReadSettles(k))

SpecLive == InitLive /\ [][NextConc]_vars /\ Fairness

\* call k has settled: resolved with a value, or raised
Settled(k) == Done(k) /\ calls[k].result.state \in {"returned", "threw"}

\* a call leaves the phase Sent only on a response or on a failure of the
\* transport: the client has no timeout of its own
LeavesSentOnTransport ==
    \A k \in LiveCalls :
        (calls[k].pc = "fetch" /\ calls'[k] # calls[k])
        => \/ calls'[k].response.status # 0
           \/ calls'[k].result = Threw("Error", NetworkErrorMessage)

\* C30: when the transport eventually delivers a response or fails, and a
\* body read eventually completes or fails, every started call eventually
\* settles, resolved with a value or raised, and stays settled with that
\* one outcome; the client itself never ends a call that is waiting for
\* the transport.
C30_EveryCallSettles ==
    /\ \A k \in LiveCalls : Invoked(k) ~> Settled(k)
    /\ [][ \A k \in LiveCalls : Settled(k) => calls'[k] = calls[k] ]_vars
    /\ [][LeavesSentOnTransport]_vars

C30_Witness ==
    \E k \in LiveCalls :
        /\ Settled(k)
        /\ calls[k].trace =
              <<"arrayBody", "generateSignature", "fetch", "json", "text",
                "throw">>
        /\ calls[k].result.state = "threw"

====
